---- MODULE Spec2Model ----
(***************************************************************************)
(* A model of the ray caster of src/main.rs: the Vector algebra, Ray,      *)
(* Sphere::intersect, PointLight::illuminate and the render loop of        *)
(* raytrace().                                                             *)
(*                                                                         *)
(* Numbers.  An f64 is modelled as a binary fixed-point number: the        *)
(* integer n stands for n / Scale, and every multiplication, division and  *)
(* square root rounds its exact result to the nearest representable value  *)
(* (ties to even), as IEEE-754 does, only at a resolution of 1/Scale.      *)
(* Integers and dyadic fractions such as 0.5 are exact, as they are in an  *)
(* f64.  The three non-finite values of an f64 are kept: PInf, NInf and    *)
(* NaN, with the IEEE rules for producing and propagating them (x/0,       *)
(* inf*0, inf-inf, sqrt of a negative number, comparisons with NaN false). *)
(* Signed zeros are not distinguished.                                     *)
(***************************************************************************)
EXTENDS Integers, Sequences, FiniteSets

\* ------------------------------------------------------------------ bounds

\* The render loop is run on images of 1..MaxWidth by 1..MaxHeight pixels.
MaxWidth == 3
MaxHeight == 2
\* The longest list of shapes and of lights a scene holds.
MaxShapes == 2
MaxLights == 2
\* Sphere::intersect is applied to centres and origins on the integer grid
\* -MaxCoord..MaxCoord, with radii 1..MaxRadius.
MaxCoord == 2
MaxRadius == 2
\* raytrace()'s own pixels are traced in the window of half-width MaxWindow
\* around the centre of the 640 x 480 image.
MaxWindow == 6

\* ----------------------------------------------------------------- numbers

\* Scale = 2^15, written as the cube of the chunk the long division works in.
Chunk == 2 ^ 5
Scale == Chunk * Chunk * Chunk
PInf == 2 ^ 30
NInf == 0 - PInf
NaN == PInf + 1

\* The literal n.0, and 0.5.
I(n) == n * Scale
Half == Scale \div 2

IsNaN(a) == a = NaN
IsInf(a) == a = PInf \/ a = NInf
IsFinite(a) == ~IsNaN(a) /\ ~IsInf(a)
Sign(a) == IF a < 0 THEN -1 ELSE 1

\* q + m/d (0 <= m < d) rounded to the nearest integer, ties to even.
RoundNearest(q, m, d) ==
    IF 2 * m < d THEN q
    ELSE IF 2 * m > d THEN q + 1
    ELSE IF q % 2 = 0 THEN q ELSE q + 1

\* n / d for integers n and d > 0, rounded to the nearest integer.
RoundDiv(n, d) == RoundNearest(n \div d, n % d, d)

\* a * b = q * Scale + m with 0 <= m < Scale, computed in parts so that no
\* intermediate product leaves the range of the integers.
MulParts(a, b) ==
    [q |-> (a \div Scale) * (b \div Scale) * Scale
              + (a \div Scale) * (b % Scale)
              + (a % Scale) * (b \div Scale)
              + (((a % Scale) * (b % Scale)) \div Scale),
     m |-> ((a % Scale) * (b % Scale)) % Scale]

RECURSIVE LongDiv(_, _, _, _)
\* Long division: k more chunks of the quotient <<q, r>> by b > 0.
LongDiv(q, r, b, k) ==
    IF k = 0 THEN << q, r >>
    ELSE LongDiv(q * Chunk + ((r * Chunk) \div b), (r * Chunk) % b, b, k - 1)

\* a * Scale / b for b > 0, rounded to the nearest integer.
RoundPair(d, b) == RoundNearest(d[1], d[2], b)
RoundQuot(a, b) == RoundPair(LongDiv(a \div b, a % b, b, 3), b)

RECURSIVE ISqrtNewton(_, _)
\* The largest s with s * s <= a * Scale, by Newton's iteration from a
\* guess g >= s: the next guess is the mean of g and a * Scale / g.
NewtonStep(a, g) == (g + LongDiv(a \div g, a % g, g, 3)[1]) \div 2
ISqrtNewton(a, g) ==
    CHOOSE s \in { IF next >= g THEN g ELSE ISqrtNewton(a, next) :
                      next \in { NewtonStep(a, g) } } : TRUE

\* sqrt(a * Scale) for a >= 0, rounded to the nearest integer.
RoundUp(a, s) == IF MulParts(s, s + 1).q < a THEN s + 1 ELSE s
RoundSqrt(a) ==
    IF a = 0 THEN 0
    ELSE RoundUp(a, ISqrtNewton(a, IF a > Scale THEN a ELSE Scale))

FNeg(a) == IF a = NaN THEN NaN ELSE 0 - a

FAdd(a, b) ==
    IF a = NaN \/ b = NaN THEN NaN
    ELSE IF IsInf(a) THEN (IF IsInf(b) /\ a # b THEN NaN ELSE a)
    ELSE IF IsInf(b) THEN b
    ELSE a + b

FSub(a, b) == FAdd(a, FNeg(b))

RoundParts(p) == RoundNearest(p.q, p.m, Scale)

FMul(a, b) ==
    IF a = NaN \/ b = NaN THEN NaN
    ELSE IF IsInf(a) \/ IsInf(b)
         THEN (IF a = 0 \/ b = 0 THEN NaN
               ELSE IF Sign(a) = Sign(b) THEN PInf ELSE NInf)
    ELSE RoundParts(MulParts(a, b))

FDiv(a, b) ==
    IF a = NaN \/ b = NaN THEN NaN
    ELSE IF IsInf(a)
         THEN (IF IsInf(b) THEN NaN
               ELSE IF Sign(a) = Sign(b) THEN PInf ELSE NInf)
    ELSE IF IsInf(b) THEN 0
    ELSE IF b = 0
         THEN (IF a = 0 THEN NaN ELSE IF a > 0 THEN PInf ELSE NInf)
    ELSE IF b > 0 THEN RoundQuot(a, b)
    ELSE RoundQuot(0 - a, 0 - b)

FSqrt(a) ==
    IF a = NaN \/ a < 0 THEN NaN
    ELSE IF a = PInf THEN PInf
    ELSE RoundSqrt(a)

\* f64's comparisons: every comparison with NaN is false.
FLt(a, b) == a # NaN /\ b # NaN /\ a < b
FGt(a, b) == a # NaN /\ b # NaN /\ a > b
FEq(a, b) == a # NaN /\ b # NaN /\ a = b

\* f64::powi(2).
Powi2(a) == FMul(a, a)

\* std::f64::consts::PI, as 355/113 rounded to the resolution.
Pi == RoundDiv(355 * Scale, 113)

\* f64::tan for the angles of the camera, |a| <= fov/2 < 0.4 rad: the
\* Maclaurin polynomial a + a^3/3 + 2a^5/15 + 17a^7/315, whose error there
\* is below the resolution.
TanSeries(a, a2, a3) ==
    a + RoundDiv(a3, 3) + RoundDiv(2 * FMul(a3, a2), 15)
      + RoundDiv(17 * FMul(FMul(a3, a2), a2), 315)
Tan(a) == TanSeries(a, FMul(a, a), FMul(FMul(a, a), a))

\* Option<T>: None and Some(v).
None == << >>
Some(v) == << v >>
Unwrap(o) == o[1]

\* ------------------------------------------------------------------ Vector

Vector(vx, vy, vz) == [x |-> vx, y |-> vy, z |-> vz]

\* A vector of integer coordinates.
IVec(vx, vy, vz) == Vector(I(vx), I(vy), I(vz))

VLen(v) == FSqrt(FAdd(FAdd(Powi2(v.x), Powi2(v.y)), Powi2(v.z)))

VAdd(a, b) == Vector(FAdd(a.x, b.x), FAdd(a.y, b.y), FAdd(a.z, b.z))

VSub(a, b) == Vector(FSub(a.x, b.x), FSub(a.y, b.y), FSub(a.z, b.z))

VDot(a, b) == FAdd(FAdd(FMul(a.x, b.x), FMul(a.y, b.y)), FMul(a.z, b.z))

VScale(k, v) == Vector(FMul(k, v.x), FMul(k, v.y), FMul(k, v.z))

Normalize(v) == VScale(FDiv(I(1), VLen(v)), v)

\* --------------------------------------------------------------------- Ray

Ray(o, d) == [origin |-> o, direction |-> d]

At(r, length) == VAdd(r.origin, VScale(length, r.direction))

\* ------------------------------------------------------------------ Sphere

Sphere(c, r) == [center |-> c, radius |-> r]

\* The discriminant with the radius subtracted instead of added back.
\* Lines 98-101: diff = o - c and dot = l * diff.
Diff(s, r) == VSub(r.origin, s.center)
Dot(s, r) == VDot(Normalize(r.direction), Diff(s, r))

DiscriminantRadiusSign(s, r) ==
    FSub(Powi2(Dot(s, r)), FAdd(Powi2(VLen(Diff(s, r))), Powi2(s.radius)))

\* Line 102.
Discriminant(s, r) ==
    FSub(Powi2(Dot(s, r)), FSub(Powi2(VLen(Diff(s, r))), Powi2(s.radius)))

\* Lines 103-115: the result for a dot and a discriminant, and the smaller
\* of the two roots a and b.
SmallerRoot(a, b) == IF FGt(a, b) THEN Some(b) ELSE Some(a)
Roots(dot, discriminant) ==
    IF FLt(discriminant, 0) THEN None
    ELSE IF FEq(discriminant, 0) THEN Some(FNeg(dot))
    ELSE SmallerRoot(FAdd(FNeg(dot), discriminant),
                     FSub(FNeg(dot), discriminant))

Intersect(s, r) == Roots(Dot(s, r), Discriminant(s, r))

\* -------------------------------------------------------------- PointLight

PointLight(s, c, i) == [source |-> s, color |-> c, intensity |-> i]

Illuminate(light, point) ==
    VScale(FDiv(light.intensity, Powi2(VLen(VSub(point, light.source)))),
           light.color)

\* ---------------------------------------------------------------- raytrace

\* The scene of raytrace().
sphere_fixed == Sphere(IVec(0, 0, -10), I(1))
light_red == PointLight(IVec(2, 0, -9), IVec(1, 0, 0), I(2))
light_green == PointLight(IVec(-2, 0, -9), IVec(0, 1, 0), I(2))
light_blue == PointLight(IVec(0, -2, -9), IVec(0, 0, 1), I(2))
FixedShapes == << sphere_fixed >>
FixedLights == << light_red, light_green, light_blue >>

Width == 640
Height == 480

Fov == FDiv(FMul(I(45), Pi), I(180))

\* Lines 156 and 163-168: fov_y, angle_x, angle_y, and the direction d of
\* the tangents dx and dy.
FovY(w, h) == FDiv(FMul(I(h), Fov), I(w))
AngleX(px, w) == FMul(FSub(FDiv(I(px), I(w)), Half), Fov)
AngleY(py, w, h) == FMul(FNeg(FSub(FDiv(I(py), I(h)), Half)), FovY(w, h))
Direction(dx, dy) ==
    Vector(dx, dy, FNeg(FSqrt(FSub(FSub(I(1), Powi2(dx)), Powi2(dy)))))

\* The offset with the coordinates exchanged, and the offset of a buffer of
\* one byte per pixel.
PixelIndexSwapped(px, py, w) == (px * w + py) * 4
PixelIndexUnscaled(px, py, w) == px + py * w

\* The byte offset of pixel (px, py) in the buffer.
PixelIndex(px, py, w) == (px + py * w) * 4

\* The camera ray without the half that centres the image on the axis.
CameraRayUncentred(px, py, w, h) ==
    Ray(Vector(0, 0, 0),
        Direction(Tan(FMul(FDiv(I(px), I(w)), Fov)),
                  Tan(FMul(FNeg(FDiv(I(py), I(h))), FovY(w, h)))))

\* The camera ray of pixel (px, py) of a w by h image.
CameraRay(px, py, w, h) ==
    Ray(Vector(0, 0, 0), Direction(Tan(AngleX(px, w)), Tan(AngleY(py, w, h))))

\* The shape loop's pass with a comparison that lets an equal distance
\* replace the closest, and with one that drops hits behind the camera.
NotGreater(closest, k, distance) ==
    IF /\ distance # None
       /\ \/ closest.distance = None
          \/ ~FGt(Unwrap(distance), Unwrap(closest.distance))
    THEN [distance |-> distance, shape |-> Some(k)]
    ELSE closest
ConsiderNotGreater(closest, k, shape, r) ==
    NotGreater(closest, k, Intersect(shape, r))
InFront(closest, k, distance) ==
    IF /\ distance # None
       /\ FGt(Unwrap(distance), 0)
       /\ \/ closest.distance = None
          \/ FLt(Unwrap(distance), Unwrap(closest.distance))
    THEN [distance |-> distance, shape |-> Some(k)]
    ELSE closest
ConsiderInFront(closest, k, shape, r) ==
    InFront(closest, k, Intersect(shape, r))

\* Lines 175-180: the closest so far, or shape number k at the distance
\* its intersect returned.
Nearer(closest, k, distance) ==
    IF /\ distance # None
       /\ \/ closest.distance = None
          \/ FLt(Unwrap(distance), Unwrap(closest.distance))
    THEN [distance |-> distance, shape |-> Some(k)]
    ELSE closest

\* One pass of the shape loop: shape number k against the closest so far.
Consider(closest, k, shape, r) == Nearer(closest, k, Intersect(shape, r))

Clamp(c) == IF FGt(c, I(1)) THEN I(1) ELSE c
ClampAll(c) == Vector(Clamp(c.x), Clamp(c.y), Clamp(c.z))

\* The light loop's pass with the clamp before the addition.
AddLightClampFirst(c, light, point) ==
    VAdd(ClampAll(c), Illuminate(light, point))

\* One pass of the light loop: the light's contribution added, then clamped.
AddLight(c, light, point) == ClampAll(VAdd(c, Illuminate(light, point)))

\* The number v/Scale truncated towards zero.
Trunc(v) == IF v >= 0 THEN v \div Scale ELSE 0 - ((0 - v) \div Scale)

\* The conversion rounding to the nearest integer.
AsU8Nearest(v) ==
    IF IsNaN(v) THEN { 0 }
    ELSE IF v = PInf THEN { 255 }
    ELSE IF v = NInf THEN { 0 }
    ELSE IF Trunc(v + Half) > 255 THEN { 255 }
    ELSE IF Trunc(v + Half) < 0 THEN { 0 }
    ELSE { Trunc(v + Half) }

\* `v as u8`: the integer part of a value in range.  Out of range (and NaN)
\* the cast saturates since Rust 1.45 and was undefined behaviour before,
\* where the builds for x86 keep the low byte of the truncated integer.
AsU8(v) ==
    IF IsNaN(v) THEN { 0 }
    ELSE IF v = PInf THEN { 255, 0 }
    ELSE IF v = NInf THEN { 0 }
    ELSE IF Trunc(v) > 255 THEN { 255, Trunc(v) % 256 }
    ELSE IF Trunc(v) < 0 THEN { 0, Trunc(v) % 256 }
    ELSE { Trunc(v) }

\* The bytes a shaded pixel of colour c may be written as.
ColorBytes(c) ==
    { << r, g, b, 255 >> : r \in AsU8(FMul(c.x, I(255))),
                           g \in AsU8(FMul(c.y, I(255))),
                           b \in AsU8(FMul(c.z, I(255))) }

BackgroundBytes == << 0, 0, 0, 255 >>

RECURSIVE Closest(_, _, _, _)
\* The shape loop from shape k on.
Closest(shapeList, r, k, closest) ==
    IF k > Len(shapeList) THEN closest
    ELSE CHOOSE last \in { Closest(shapeList, r, k + 1, next) :
                              next \in { Consider(closest, k, shapeList[k], r) } } : TRUE

RECURSIVE Shade(_, _, _, _)
\* The light loop from light k on.
Shade(lightList, point, k, c) ==
    IF k > Len(lightList) THEN c
    ELSE CHOOSE last \in { Shade(lightList, point, k + 1, next) :
                              next \in { AddLight(c, lightList[k], point) } } : TRUE

NoClosest == [distance |-> None, shape |-> None]

\* The `if let` after the shape loop: the bytes the pixel of ray r may be
\* written as, given the closest hit.
PixelBytes(lightList, r, closest) ==
    IF closest.distance # None
    THEN UNION { ColorBytes(Shade(lightList, point, 1, Vector(0, 0, 0))) :
                    point \in { At(r, Unwrap(closest.distance)) } }
    ELSE { BackgroundBytes }

\* The body of the pixel loop: the bytes the pixel of ray r may be written as.
TraceBytes(shapeList, lightList, r) ==
    UNION { PixelBytes(lightList, r, closest) :
               closest \in { Closest(shapeList, r, 1, NoClosest) } }

\* ------------------------------------------------------------------- state

VARIABLES
    \* raytrace(): the image size, the scene, the loop counters, the ray of
    \* the current pixel, the shape loop and the light loop, the buffer.
    width, height, shapes, lights, x, y, pc, ray,
    shape_i, current_closest, current_closest_distance,
    light_i, color, data,
    \* how often each byte of the buffer was written, and by which arm of
    \* the `if let` each pixel (x, y) was written
    writes, arm,
    \* what the encoder was handed
    image,
    \* one call of Sphere::intersect
    sphere, probe, hit, ipc,
    \* one pixel of the 640 x 480 image
    px, py, pixel

rvars == << width, height, shapes, lights, x, y, pc, ray, shape_i,
            current_closest, current_closest_distance, light_i, color, data,
            writes, arm, image >>
ivars == << sphere, probe, hit, ipc >>
pvars == << px, py, pixel >>
vars == << rvars, ivars, pvars >>

\* The variables of a part that is not running.
RenderIdle ==
    /\ width = 0 /\ height = 0 /\ shapes = << >> /\ lights = << >>
    /\ x = 0 /\ y = 0 /\ pc = "idle" /\ ray = None
    /\ shape_i = 0 /\ current_closest = None /\ current_closest_distance = None
    /\ light_i = 0 /\ color = None /\ data = << >>
    /\ writes = << >> /\ arm = << >> /\ image = None
IntersectIdle == sphere = None /\ probe = None /\ hit = None /\ ipc = "idle"
PixelIdle == px = 0 /\ py = 0 /\ pixel = None

\* ------------------------------------------------------- the render loop

\* Scenes: raytrace()'s own, its lights with any list of spheres of a pool,
\* and its sphere with any list of lights of a pool.
SpherePool ==
    { sphere_fixed,
      Sphere(IVec(0, 0, -13), I(2)),    \* the same distance on the axis
      Sphere(IVec(0, 0, 10), I(1)),     \* behind the camera
      Sphere(IVec(0, 0, -4), I(2)) }    \* through the camera
LightPool ==
    { light_red, light_blue,
      PointLight(IVec(1, 0, -9), IVec(1, 1, 0), I(2)),      \* bright
      PointLight(IVec(2, 0, -9), IVec(1, 0, 0), I(-1)),     \* negative
      PointLight(IVec(0, 0, -9), IVec(1, 0, 0), I(2)) }     \* on the sphere
ShapeLists == UNION { [1 .. n -> SpherePool] : n \in 0 .. MaxShapes }
LightLists == UNION { [1 .. n -> LightPool] : n \in 0 .. MaxLights }
Scenes ==
    { << FixedShapes, FixedLights >> }
        \cup { << sl, FixedLights >> : sl \in ShapeLists }
        \cup { << FixedShapes, ll >> : ll \in LightLists }

\* The state before the pixel loop, for an image no higher than wide (as
\* 640 x 480 is) and a scene.
Init ==
    /\ width \in 1 .. MaxWidth
    /\ height \in 1 .. MaxHeight
    /\ height <= width
    /\ \E scene \in Scenes : shapes = scene[1] /\ lights = scene[2]
    /\ x = 0 /\ y = 0 /\ pc = "pixel"
    /\ ray = None
    /\ shape_i = 0 /\ current_closest = None /\ current_closest_distance = None
    /\ light_i = 0 /\ color = None
    /\ data = [i \in 0 .. width * height * 4 - 1 |-> 0]
    /\ writes = [i \in 0 .. width * height * 4 - 1 |-> 0]
    /\ arm = [p \in (0 .. width - 1) \X (0 .. height - 1) |-> "none"]
    /\ image = None
    /\ IntersectIdle /\ PixelIdle

\* The four bytes at offset i written, and the loops advanced: y within x.
Store(i, bytes, which) ==
    /\ data' = [j \in DOMAIN data |->
                   IF j \in i .. i + 3 THEN bytes[j - i + 1] ELSE data[j]]
    /\ writes' = [j \in DOMAIN writes |->
                   IF j \in i .. i + 3 THEN writes[j] + 1 ELSE writes[j]]
    /\ arm' = [arm EXCEPT ![<< x, y >>] = which]
    /\ IF y + 1 < height
       THEN x' = x /\ y' = y + 1 /\ pc' = "pixel"
       ELSE /\ x' = x + 1 /\ y' = 0
            /\ pc' = IF x + 1 < width THEN "pixel" ELSE "done"

\* Lines 162-172: the ray of pixel (x, y), nothing closest yet.
BuildRay ==
    /\ pc = "pixel"
    /\ ray' = CameraRay(x, y, width, height)
    /\ current_closest' = None
    /\ current_closest_distance' = None
    /\ shape_i' = 1
    /\ pc' = "shapes"
    /\ UNCHANGED << width, height, shapes, lights, x, y, light_i, color,
                    data, writes, arm, image >>

\* Lines 173-181: one pass of the shape loop.
ShapeStep ==
    /\ pc = "shapes"
    /\ shape_i <= Len(shapes)
    /\ \E closest \in { Consider([distance |-> current_closest_distance,
                                    shape |-> current_closest],
                                   shape_i, shapes[shape_i], ray) } :
          /\ current_closest_distance' = closest.distance
          /\ current_closest' = closest.shape
    /\ shape_i' = shape_i + 1
    /\ UNCHANGED << width, height, shapes, lights, x, y, pc, ray, light_i,
                    color, data, writes, arm, image >>

\* Lines 183-184: a hit, the colour starts black.
StartShade ==
    /\ pc = "shapes"
    /\ shape_i > Len(shapes)
    /\ current_closest_distance # None
    /\ color' = Vector(0, 0, 0)
    /\ light_i' = 1
    /\ pc' = "lights"
    /\ UNCHANGED << width, height, shapes, lights, x, y, ray, shape_i,
                    current_closest, current_closest_distance, data, writes,
                    arm, image >>

\* Lines 185-190: one pass of the light loop.
LightStep ==
    /\ pc = "lights"
    /\ light_i <= Len(lights)
    /\ \E point \in { At(ray, Unwrap(current_closest_distance)) } :
          color' = AddLight(color, lights[light_i], point)
    /\ light_i' = light_i + 1
    /\ UNCHANGED << width, height, shapes, lights, x, y, pc, ray, shape_i,
                    current_closest, current_closest_distance, data, writes,
                    arm, image >>

\* Lines 191-194: the shaded pixel is written.
WritePixel ==
    /\ pc = "lights"
    /\ light_i > Len(lights)
    /\ \E bytes \in ColorBytes(color) :
          Store(PixelIndex(x, y, width), bytes, "shaded")
    /\ UNCHANGED << width, height, shapes, lights, ray, shape_i,
                    current_closest, current_closest_distance, light_i,
                    color, image >>

\* Lines 195-200: no hit, the background is written.
WriteBackground ==
    /\ pc = "shapes"
    /\ shape_i > Len(shapes)
    /\ current_closest_distance = None
    /\ Store(PixelIndex(x, y, width), BackgroundBytes, "background")
    /\ UNCHANGED << width, height, shapes, lights, ray, shape_i,
                    current_closest, current_closest_distance, light_i,
                    color, image >>

\* Line 203: the buffer is handed to the encoder.
WriteImage ==
    /\ pc = "done"
    /\ image' = Some(data)
    /\ pc' = "written"
    /\ UNCHANGED << width, height, shapes, lights, x, y, ray, shape_i,
                    current_closest, current_closest_distance, light_i,
                    color, data, writes, arm >>

Next ==
    \/ (BuildRay /\ UNCHANGED << ivars, pvars >>)
    \/ (ShapeStep /\ UNCHANGED << ivars, pvars >>)
    \/ (StartShade /\ UNCHANGED << ivars, pvars >>)
    \/ (LightStep /\ UNCHANGED << ivars, pvars >>)
    \/ (WritePixel /\ UNCHANGED << ivars, pvars >>)
    \/ (WriteBackground /\ UNCHANGED << ivars, pvars >>)
    \/ (WriteImage /\ UNCHANGED << ivars, pvars >>)

Spec == Init /\ [][Next]_vars

\* ------------------------------------------------ one call of intersect

Grid == (0 - MaxCoord) .. MaxCoord
GridVecs == { IVec(a, b, c) : a \in Grid, b \in Grid, c \in Grid }
Directions ==
    { IVec(a, b, c) : a \in -1 .. 1, b \in -1 .. 1, c \in -1 .. 1 }
        \ { IVec(0, 0, 0) }
Origins == { IVec(0, 0, 0), IVec(1, -1, 2) }

\* Any sphere of the grid, and any ray from an origin along a direction of
\* the grid or straight at the centre.
InitIntersect ==
    /\ \E c \in GridVecs, r \in 1 .. MaxRadius : sphere = Sphere(c, I(r))
    /\ \E o \in Origins :
       \E d \in (Directions \cup { VSub(sphere.center, o) }) \ { IVec(0, 0, 0) } :
          probe = Ray(o, d)
    /\ hit = None
    /\ ipc = "call"
    /\ RenderIdle /\ PixelIdle

CallIntersect ==
    /\ ipc = "call"
    /\ hit' = Intersect(sphere, probe)
    /\ ipc' = "returned"
    /\ UNCHANGED << sphere, probe >>

NextIntersect == CallIntersect /\ UNCHANGED << rvars, pvars >>

SpecIntersect == InitIntersect /\ [][NextIntersect]_vars

\* ------------------------------- one pixel of raytrace()'s 640 x 480 image

InitPixel ==
    /\ px \in (Width \div 2) - MaxWindow .. (Width \div 2) + MaxWindow
    /\ py \in (Height \div 2) - MaxWindow .. (Height \div 2) + MaxWindow
    /\ pixel = None
    /\ RenderIdle /\ IntersectIdle

\* Lines 162-200 for pixel (px, py) of the scene of lines 136-141.
TracePixel ==
    /\ pixel = None
    /\ \E r \in { CameraRay(px, py, Width, Height) } :
          pixel' \in { Some(b) : b \in TraceBytes(FixedShapes, FixedLights, r) }
    /\ UNCHANGED << px, py >>

NextPixel == TracePixel /\ UNCHANGED << rvars, ivars >>

SpecPixel == InitPixel /\ [][NextPixel]_vars

\* ------------------------------------------------- Sphere::intersect claims

\* Exact integer geometry on the grid, independent of the fixed-point code:
\* the coordinates of a grid vector, the squared length, and the squared
\* length of the cross product.
Units(v) == [x |-> v.x \div Scale, y |-> v.y \div Scale, z |-> v.z \div Scale]
NormSq(u) == u.x * u.x + u.y * u.y + u.z * u.z
CrossSq(u, w) ==
    LET cx == u.y * w.z - u.z * w.y
        cy == u.z * w.x - u.x * w.z
        cz == u.x * w.y - u.y * w.x
    IN  cx * cx + cy * cy + cz * cz

\* The perpendicular distance p from the centre to the ray's line satisfies
\* p^2 |D|^2 = |(O - C) x D|^2, so p > r iff |(O - C) x D|^2 > r^2 |D|^2.
PerpSqTimesDirSq == CrossSq(Units(VSub(probe.origin, sphere.center)), Units(probe.direction))
RadiusSqTimesDirSq ==
    (sphere.radius \div Scale) * (sphere.radius \div Scale) * NormSq(Units(probe.direction))

\* The ray points from its origin straight at the centre, from outside.
Aimed == probe.direction = VSub(sphere.center, probe.origin)
Outside == NormSq(Units(VSub(probe.origin, sphere.center)))
              > (sphere.radius \div Scale) * (sphere.radius \div Scale)

Abs(n) == IF n < 0 THEN 0 - n ELSE n
\* 1/16: the tolerance of a comparison of distances.
Tolerance == Scale \div 16

\* C4: a ray aimed at the centre from outside hits at distance(O, C) - r.
C4_AimedHitDistance ==
    (ipc = "returned" /\ Aimed /\ Outside) =>
        /\ hit # None
        /\ IsFinite(Unwrap(hit))
        /\ Abs(Unwrap(hit) - (VLen(VSub(probe.origin, sphere.center)) - sphere.radius))
              <= Tolerance

\* What the code returns there: distance(O, C) - r^2.
AimedHitIsDistMinusRadiusSq ==
    (ipc = "returned" /\ Aimed /\ Outside) =>
        /\ hit # None
        /\ Abs(Unwrap(hit) - (VLen(VSub(probe.origin, sphere.center)) - Powi2(sphere.radius)))
              <= Tolerance

\* C5: a ray whose line passes the centre at more than the radius returns
\* None, one that passes within the radius returns a hit, and None is
\* returned exactly when the discriminant is negative.
C5_MissReturnsNone ==
    ipc = "returned" =>
        /\ PerpSqTimesDirSq > RadiusSqTimesDirSq => hit = None
        /\ PerpSqTimesDirSq < RadiusSqTimesDirSq => hit # None
        /\ hit = None <=> FLt(Discriminant(sphere, probe), 0)

C5_Witness ==
    /\ ipc = "returned"
    /\ PerpSqTimesDirSq > RadiusSqTimesDirSq
    /\ hit = None
    /\ NormSq(Units(probe.direction)) = 3

\* ------------------------------------------------------ render loop claims

Pixels == { << a, b >> : a \in 0 .. width - 1, b \in 0 .. height - 1 }
\* The offset the specification gives pixel p = (x, y): (x + y*width)*4.
RowMajor(p) == (p[1] + p[2] * width) * 4
Offsets(p) == RowMajor(p) .. RowMajor(p) + 3
BytesAt(i) == << data[i], data[i + 1], data[i + 2], data[i + 3] >>
RayOf(p) == CameraRay(p[1], p[2], width, height)
\* Some shape's intersect returns a hit for the ray r.
AnyHit(r) == \E k \in 1 .. Len(shapes) : Intersect(shapes[k], r) # None
\* The distance the pixel of ray r is shaded at, and its final colour.
HitDistance(r) == Unwrap(Closest(shapes, r, 1, NoClosest).distance)
FinalColor(r, distance) == Shade(lights, At(r, distance), 1, Vector(0, 0, 0))

\* C1: when the render loop has finished the buffer has width*height*4
\* bytes, every pixel's R, G, B, A are at (x + y*width)*4 + 0..3 with
\* A = 255, and the pixels' offsets cover the buffer: every byte was
\* written.  That buffer is what the encoder is handed.
C1_BufferComplete ==
    /\ pc = "written" => image = Some(data)
    /\ pc = "done" =>
        /\ DOMAIN data = 0 .. width * height * 4 - 1
        /\ \A p \in Pixels :
              /\ Offsets(p) \subseteq DOMAIN data
              /\ \A r \in { RayOf(p) } :
                    BytesAt(RowMajor(p))
                       \in TraceBytes(shapes, lights, r)
              /\ data[RowMajor(p) + 3] = 255
        /\ UNION { Offsets(p) : p \in Pixels } = DOMAIN data
        /\ \A j \in DOMAIN data : writes[j] >= 1

C1_Witness ==
    /\ pc = "done"
    /\ width = 3 /\ height = 2
    /\ \E p \in Pixels : arm[p] = "shaded"
    /\ \E p \in Pixels : arm[p] = "background"

\* C2: the step of pixel (x, y) writes only the four bytes at
\* (x + y*width)*4 .. +3 and leaves every other byte as it was, no byte is
\* ever written twice, and two pixels never share a byte offset.
C2_WriteOncePerPixel ==
    [][ /\ \A j \in DOMAIN data :
              j \notin Offsets(<< x, y >>)
                 => data'[j] = data[j] /\ writes'[j] = writes[j]
        /\ \A j \in DOMAIN data : writes'[j] <= 1
        /\ \A p \in Pixels, q \in Pixels : p # q => Offsets(p) \cap Offsets(q) = { }
      ]_vars

C2_Witness ==
    /\ pc = "done"
    /\ width >= 2 /\ height >= 2
    /\ \A j \in DOMAIN data : writes[j] = 1
    /\ \E p \in Pixels : arm[p] = "shaded"

\* c <= 1.0 as an f64 comparison: false of NaN.
AtMostOne(c) == ~IsNaN(c) /\ c <= I(1)

Perms(n) == { f \in [1 .. n -> 1 .. n] : \A i \in 1 .. n, j \in 1 .. n : f[i] = f[j] => i = j }
Reordered(f) == [k \in 1 .. Len(lights) |-> lights[f[k]]]
HitPoint == At(ray, Unwrap(current_closest_distance))
RECURSIVE SumOfLights(_)
SumOfLights(k) ==
    IF k = 0 THEN Vector(0, 0, 0)
    ELSE VAdd(SumOfLights(k - 1), Illuminate(lights[k], HitPoint))
MinOne(c) == IF IsNaN(c) THEN c ELSE IF c > I(1) THEN I(1) ELSE c
LoopDone == pc = "lights" /\ light_i > Len(lights)
OrderIndependent ==
    /\ \A f \in Perms(Len(lights)) :
          Shade(Reordered(f), HitPoint, 1, Vector(0, 0, 0)) = color
    /\ color = LET s == SumOfLights(Len(lights))
               IN  Vector(MinOne(s.x), MinOne(s.y), MinOne(s.z))
NotNegative(c) == IsNaN(c) \/ c >= 0
NoNegativeContribution ==
    \A k \in 1 .. Len(lights) :
        LET part == Illuminate(lights[k], HitPoint)
        IN  NotNegative(part.x) /\ NotNegative(part.y) /\ NotNegative(part.z)

\* C7 as stated: for any lights the final colour is the same in every order
\* of the lights and is min(1.0, sum) per channel.
C7_AnyLightsOrderIndependent == LoopDone => OrderIndependent

\* C7 as amended: for lights none of whose contributions at the hit point
\* is negative in any channel, the final colour is the same in every order
\* of the lights and is the sum clamped once (c > 1.0 gives 1.0).
C7_NonNegativeOrderIndependent ==
    (LoopDone /\ NoNegativeContribution) => OrderIndependent

C7_Witness ==
    /\ LoopDone /\ NoNegativeContribution
    /\ Len(lights) = 2 /\ lights[1] # lights[2]
    /\ SumOfLights(2).x > I(1) /\ color.x = I(1)
    /\ Illuminate(lights[1], HitPoint).x > I(1)
    /\ Illuminate(lights[2], HitPoint).x > 0

\* C8: after the shape loop current_closest_distance is None if no shape
\* returned a hit, and otherwise the least distance returned; the closest
\* shape is the first in the list that returned it.
C8_ClosestIsFirstMinimum ==
    (pc = "shapes" /\ shape_i > Len(shapes)) =>
        LET d == [k \in 1 .. Len(shapes) |-> Intersect(shapes[k], ray)]
            hits == { k \in 1 .. Len(shapes) : d[k] # None }
        IN  IF hits = { } THEN current_closest_distance = None
            ELSE /\ current_closest_distance # None
                 /\ current_closest # None
                 /\ Unwrap(current_closest) \in hits
                 /\ d[Unwrap(current_closest)] = current_closest_distance
                 /\ \A k \in hits :
                       /\ Unwrap(d[k]) >= Unwrap(current_closest_distance)
                       /\ d[k] = current_closest_distance
                             => k >= Unwrap(current_closest)

C8_Witness ==
    /\ pc = "shapes" /\ shape_i > Len(shapes)
    /\ Len(shapes) = 2
    /\ shapes[1] # shapes[2]
    /\ Intersect(shapes[1], ray) # None
    /\ Intersect(shapes[1], ray) = Intersect(shapes[2], ray)
    /\ current_closest = Some(1)

\* C9: a pixel is written by the background arm, as (0,0,0,255), exactly
\* when no shape returned a hit for its ray; any returned distance, zero and
\* negative ones too, has it shaded from ray.at(distance).
C9_BackgroundIffNoHit ==
    pc = "done" =>
        \A p \in Pixels : \A r \in { RayOf(p) } : \A anyHit \in { AnyHit(r) } :
            LET i == RowMajor(p)
            IN  /\ arm[p] = "background" <=> ~anyHit
                /\ arm[p] = "shaded" <=> anyHit
                /\ arm[p] = "background" => BytesAt(i) = BackgroundBytes
                /\ arm[p] = "shaded" =>
                      \A d \in { HitDistance(r) } :
                          BytesAt(i) \in ColorBytes(FinalColor(r, d))

C9_Witness ==
    /\ pc = "done"
    /\ \E p \in Pixels : \E r \in { RayOf(p) } :
        /\ arm[p] = "shaded"
        /\ HitDistance(r) < 0
        /\ BytesAt(RowMajor(p)) # BackgroundBytes

\* C10: the byte of a channel c in [0, 1] of a hit pixel's final colour is
\* the integer part of c * 255, and the alpha byte is 255.
IntegerPartTimes255(c) == (c * 255) \div Scale
InUnitRange(c) == IsFinite(c) /\ 0 <= c /\ c <= I(1)
C10_BytesAreTruncated ==
    pc = "done" =>
        \A p \in Pixels :
            LET i == RowMajor(p)
            IN  arm[p] = "shaded" =>
                  \A r \in { RayOf(p) } : \A d \in { HitDistance(r) } :
                  \A final \in { FinalColor(r, d) } :
                      /\ InUnitRange(final.x) => data[i] = IntegerPartTimes255(final.x)
                      /\ InUnitRange(final.y) => data[i + 1] = IntegerPartTimes255(final.y)
                      /\ InUnitRange(final.z) => data[i + 2] = IntegerPartTimes255(final.z)
                      /\ data[i + 3] = 255

C10_Witness ==
    /\ pc = "done"
    /\ \E p \in { q \in Pixels : arm[q] = "shaded" } :
        \E r \in { RayOf(p) } : \E d \in { HitDistance(r) } :
        /\ FinalColor(r, d) = Vector(I(1), I(1), Half)
        /\ BytesAt(RowMajor(p)) = << 255, 255, 127, 255 >>

\* ----------------------------------------------------------- pixel claims

\* C6: pixel (320, 240) of the fixed scene is not the background.
C6_CentrePixelNotBackground ==
    (pixel # None /\ px = 320 /\ py = 240) => Unwrap(pixel) # BackgroundBytes

C6_Witness ==
    /\ px = 320 /\ py = 240
    /\ CameraRay(px, py, Width, Height).direction = IVec(0, 0, -1)
    /\ pixel = Some(<< 127, 127, 127, 255 >>)

====
